---------------------------- MODULE Spec2Model ----------------------------
(***************************************************************************)
(* Model of the caseInternship back end (BackEnd/src/server.ts and         *)
(* BackEnd/src/schemas.ts): a Fastify server whose routes validate the     *)
(* request with Zod schemas and then issue Prisma calls on three tables    *)
(* (Cliente, Acao, AlocacaoCliente).                                       *)
(*                                                                         *)
(* JSON values are tagged records [t, v]; strings are sequences of         *)
(* one-character strings so that lengths and patterns are computed.        *)
(***************************************************************************)
EXTENDS Integers, Sequences, FiniteSets, TLC

VARIABLES clientes, acoes, alocacoes, nextId, inflight, resp, processo, bancoFora

vars == <<clientes, acoes, alocacoes, nextId, inflight, resp, processo, bancoFora>>
db == <<clientes, acoes, alocacoes, nextId>>

---------------------------------------------------------------------------
(* JSON values                                                             *)

Str(s) == [t |-> "string", v |-> s]
Num(n) == [t |-> "number", v |-> n]
DateV(y, m, d) == [t |-> "date", v |-> <<y, m, d>>]
Null == [t |-> "null", v |-> <<>>]
Bad == [ok |-> FALSE, v |-> Null]
Good(x) == [ok |-> TRUE, v |-> x]

Digits == {"0", "1", "2", "3", "4", "5", "6", "7", "8", "9"}
Upper == {"A", "B", "C", "D", "E", "K", "L", "P", "R", "T", "V", "X"}

DigitVal(c) ==
    CASE c = "0" -> 0 [] c = "1" -> 1 [] c = "2" -> 2 [] c = "3" -> 3
      [] c = "4" -> 4 [] c = "5" -> 5 [] c = "6" -> 6 [] c = "7" -> 7
      [] c = "8" -> 8 [] c = "9" -> 9

AllIn(s, S) == \A i \in 1..Len(s) : s[i] \in S

RECURSIVE DigitsToNat(_)
DigitsToNat(s) ==
    IF s = <<>> THEN 0
    ELSE 10 * DigitsToNat(SubSeq(s, 1, Len(s) - 1)) + DigitVal(s[Len(s)])

(* Number(x) of JavaScript on the inputs used here: "" and null give 0, a   *)
(* string of digits its value, any other string NaN (not a number).        *)
JsNumber(raw) ==
    CASE raw.t = "number" -> Good(raw.v)
      [] raw.t = "null" -> Good(0)
      [] raw.t = "string" ->
            IF AllIn(raw.v, Digits) THEN Good(DigitsToNat(raw.v)) ELSE Bad
      [] OTHER -> Bad

(* new Date(x) of JavaScript: a YYYY-MM-DD string gives that day, null and  *)
(* a small number of milliseconds give 1970-01-01, other strings are        *)
(* invalid dates.                                                          *)
JsDate(raw) ==
    CASE raw.t = "null" -> Good(DateV(1970, 1, 1))
      [] raw.t = "number" ->
            IF raw.v >= 0 /\ raw.v < 86400000 THEN Good(DateV(1970, 1, 1)) ELSE Bad
      [] raw.t = "string" ->
            LET s == raw.v IN
            IF /\ Len(s) = 10
               /\ s[5] = "-" /\ s[8] = "-"
               /\ \A i \in {1, 2, 3, 4, 6, 7, 9, 10} : s[i] \in Digits
            THEN LET y == DigitsToNat(SubSeq(s, 1, 4))
                     m == DigitsToNat(SubSeq(s, 6, 7))
                     d == DigitsToNat(SubSeq(s, 9, 10))
                 IN IF m \in 1..12 /\ d \in 1..31 THEN Good(DateV(y, m, d)) ELSE Bad
            ELSE Bad
      [] OTHER -> Bad

---------------------------------------------------------------------------
(* Zod field types of schemas.ts                                           *)

ZString(raw) == IF raw.t = "string" THEN Good(raw) ELSE Bad

ZStringMin3(raw) ==
    IF raw.t = "string" /\ Len(raw.v) >= 3 THEN Good(raw) ELSE Bad

ZCpfCnpj(raw) ==
    IF /\ raw.t = "string"
       /\ Len(raw.v) >= 11 /\ Len(raw.v) <= 18
       /\ Len(raw.v) \in {11, 14} /\ AllIn(raw.v, Digits)
    THEN Good(raw) ELSE Bad

ZTelefone(raw) ==
    IF /\ raw.t = "string"
       /\ Len(raw.v) >= 10 /\ Len(raw.v) <= 15
       /\ Len(raw.v) >= 1 /\ AllIn(raw.v, Digits)
    THEN Good(raw) ELSE Bad

(* z.string().email(): one "@" with a non-empty local part and a domain     *)
(* holding an inner ".".                                                   *)
ZEmail(raw) ==
    IF raw.t # "string" THEN Bad
    ELSE LET s == raw.v
             ats == {i \in 1..Len(s) : s[i] = "@"}
         IN IF Cardinality(ats) # 1 THEN Bad
            ELSE LET a == CHOOSE i \in ats : TRUE
                 IN IF /\ a > 1
                       /\ \E i \in (a + 2)..(Len(s) - 1) : s[i] = "."
                       /\ s[a + 1] # "."
                    THEN Good(raw) ELSE Bad

ZTicker(raw) ==
    IF /\ raw.t = "string"
       /\ Len(raw.v) >= 3 /\ Len(raw.v) <= 10
       /\ AllIn(raw.v, Upper \cup Digits)
    THEN Good(raw) ELSE Bad

ZCoerceDate(raw) == JsDate(raw)

ZCoercePositive(raw) ==
    LET n == JsNumber(raw) IN IF n.ok /\ n.v > 0 THEN Good(Num(n.v)) ELSE Bad

ZCoerceNonNegative(raw) ==
    LET n == JsNumber(raw) IN IF n.ok /\ n.v >= 0 THEN Good(Num(n.v)) ELSE Bad

(* z.number().int().positive(): no coercion, a string is rejected.         *)
ZIntPositive(raw) ==
    IF raw.t = "number" /\ raw.v > 0 THEN Good(raw) ELSE Bad

ZStringNullable(raw) == IF raw.t \in {"string", "null"} THEN Good(raw) ELSE Bad

ZField(kind, raw) ==
    CASE kind = "string" -> ZString(raw)
      [] kind = "stringMin3" -> ZStringMin3(raw)
      [] kind = "cpf" -> ZCpfCnpj(raw)
      [] kind = "telefone" -> ZTelefone(raw)
      [] kind = "email" -> ZEmail(raw)
      [] kind = "ticker" -> ZTicker(raw)
      [] kind = "date" -> ZCoerceDate(raw)
      [] kind = "positive" -> ZCoercePositive(raw)
      [] kind = "nonnegative" -> ZCoerceNonNegative(raw)
      [] kind = "intPositive" -> ZIntPositive(raw)
      [] kind = "stringNullable" -> ZStringNullable(raw)

Req(kind) == [kind |-> kind, required |-> TRUE]
Opt(kind) == [kind |-> kind, required |-> FALSE]

(* z.object(shape).safeParse(body): unknown keys are stripped, an absent    *)
(* optional key stays absent, every present key must pass its type.        *)
ZObject(shape, body) ==
    LET present == DOMAIN shape \cap DOMAIN body
    IN [ok |-> \A f \in DOMAIN shape :
                  IF f \in DOMAIN body THEN ZField(shape[f].kind, body[f]).ok
                  ELSE ~shape[f].required,
        data |-> [f \in present |-> ZField(shape[f].kind, body[f]).v]]

(* z.object({id: z.coerce.number().int().positive()}) on a path parameter.  *)
IdParamSchema(params) ==
    LET n == JsNumber(Str(params.id))
    IN [ok |-> n.ok /\ n.v > 0, data |-> [id |-> IF n.ok THEN n.v ELSE 0]]

clienteIdParamSchema(params) == IdParamSchema(params)
acaoIdParamSchema(params) == IdParamSchema(params)
alocacaoIdParamSchema(params) == IdParamSchema(params)

createClienteSchema(body) ==
    ZObject([nome_completo |-> Req("stringMin3"), cpf_cnpj |-> Req("cpf"),
             telefone |-> Req("telefone"), data_nascimento |-> Req("date"),
             email |-> Req("email")], body)

updateClienteSchema(body) ==
    ZObject([nome_completo |-> Opt("stringMin3"), cpf_cnpj |-> Opt("cpf"),
             telefone |-> Opt("telefone"), data_nascimento |-> Opt("date"),
             email |-> Opt("email")], body)

Truthy(q, f) == f \in DOMAIN q /\ q[f] # <<>>

(* Mutant: the schema without its two refinements. *)
buscarClienteQuerySchemaSemRefine(q) == [ok |-> TRUE, data |-> q]

(* Both keys are optional strings; the two refinements test truthiness, so  *)
(* an empty string counts as not given.                                    *)
buscarClienteQuerySchema(q) ==
    [ok |-> /\ Truthy(q, "nome_completo") \/ Truthy(q, "cpf_cnpj")
            /\ ~(Truthy(q, "nome_completo") /\ Truthy(q, "cpf_cnpj")),
     data |-> q]

createAcaoSchema(body) ==
    ZObject([nome_ativo |-> Req("stringMin3"), codigo_ticker |-> Req("ticker"),
             valor_atual |-> Req("positive"), tipo_ativo |-> Opt("string"),
             descricao |-> Opt("string")], body)

updateAcaoSchema(body) ==
    ZObject([nome_ativo |-> Opt("stringMin3"), codigo_ticker |-> Opt("ticker"),
             valor_atual |-> Opt("positive"), tipo_ativo |-> Opt("string"),
             descricao |-> Opt("stringNullable")], body)

createAlocacaoSchema(body) ==
    ZObject([acaoId |-> Req("intPositive"), quantidade |-> Req("positive"),
             valor_medio_aquisicao |-> Req("nonnegative"),
             data_ultima_compra |-> Req("date")], body)

updateAlocacaoSchema(body) ==
    ZObject([quantidade |-> Opt("positive"),
             valor_medio_aquisicao |-> Opt("nonnegative"),
             data_ultima_compra |-> Opt("date")], body)

---------------------------------------------------------------------------
(* Persistence: the three tables behind the Prisma client.  A call is one   *)
(* atomic statement; its result carries the Prisma error code ("" when it   *)
(* succeeded) and the tables after it.  While the database cannot be        *)
(* reached (bancoFora) every call fails with P1001.                        *)

MaxClienteId == 2
MaxAcaoId == 2
MaxAlocacaoId == 2

NoRow == [id |-> 0]

Merge(row, data) ==
    [f \in DOMAIN row |-> IF f \in DOMAIN data THEN data[f] ELSE row[f]]

FindById(table, id) ==
    IF \E r \in table : r.id = id THEN CHOOSE r \in table : r.id = id ELSE NoRow

(* Fields of `row` whose unique index already holds the value in another    *)
(* row of `table`.                                                         *)
UniqueViolations(table, row, uniqueFields) ==
    {f \in uniqueFields : \E o \in table : o.id # row.id /\ o[f] = row[f]}

ClienteUnique == {"cpf_cnpj", "email"}
AcaoUnique == {"nome_ativo", "codigo_ticker"}

(* prisma.cliente.create({data}) *)
ClienteCreate(data) ==
    LET row == Merge([id |-> nextId.cliente, nome_completo |-> Null,
                      cpf_cnpj |-> Null, telefone |-> Null,
                      data_nascimento |-> Null, email |-> Null], data)
        bad == UniqueViolations(clientes, row, ClienteUnique)
    IN IF bancoFora
       THEN [err |-> "P1001", target |-> {}, row |-> NoRow,
             clientes |-> clientes, nextId |-> nextId]
       ELSE IF bad # {}
       THEN [err |-> "P2002", target |-> bad, row |-> NoRow,
             clientes |-> clientes, nextId |-> nextId]
       ELSE [err |-> "", target |-> {}, row |-> row,
             clientes |-> clientes \cup {row},
             nextId |-> [nextId EXCEPT !.cliente = @ + 1]]

(* prisma.cliente.update({where: {id}, data}) *)
ClienteUpdate(id, data) ==
    LET old == FindById(clientes, id)
        row == Merge(old, data)
        bad == UniqueViolations(clientes, row, ClienteUnique)
    IN IF bancoFora
       THEN [err |-> "P1001", target |-> {}, row |-> NoRow, clientes |-> clientes]
       ELSE IF old.id = 0
       THEN [err |-> "P2025", target |-> {}, row |-> NoRow, clientes |-> clientes]
       ELSE IF bad # {}
       THEN [err |-> "P2002", target |-> bad, row |-> NoRow, clientes |-> clientes]
       ELSE [err |-> "", target |-> {}, row |-> row,
             clientes |-> (clientes \ {old}) \cup {row}]

(* Mutant: the delete leaves the customer's allocations behind. *)
ClienteDeleteSemCascade(id) ==
    LET old == FindById(clientes, id)
    IN IF bancoFora
       THEN [err |-> "P1001", clientes |-> clientes, alocacoes |-> alocacoes]
       ELSE IF old.id = 0
       THEN [err |-> "P2025", clientes |-> clientes, alocacoes |-> alocacoes]
       ELSE [err |-> "", clientes |-> clientes \ {old}, alocacoes |-> alocacoes]

(* prisma.cliente.delete({where: {id}}): the customer's allocations go      *)
(* with it (onDelete: Cascade).                                            *)
ClienteDelete(id) ==
    LET old == FindById(clientes, id)
    IN IF bancoFora
       THEN [err |-> "P1001", clientes |-> clientes, alocacoes |-> alocacoes]
       ELSE IF old.id = 0
       THEN [err |-> "P2025", clientes |-> clientes, alocacoes |-> alocacoes]
       ELSE [err |-> "", clientes |-> clientes \ {old},
             alocacoes |-> {a \in alocacoes : a.clienteId # id}]

(* prisma.acao.create({data}) *)
AcaoCreate(data) ==
    LET row == Merge([id |-> nextId.acao, nome_ativo |-> Null,
                      codigo_ticker |-> Null, valor_atual |-> Null,
                      tipo_ativo |-> Null, descricao |-> Null], data)
        bad == UniqueViolations(acoes, row, AcaoUnique)
    IN IF bancoFora
       THEN [err |-> "P1001", target |-> {}, row |-> NoRow,
             acoes |-> acoes, nextId |-> nextId]
       ELSE IF bad # {}
       THEN [err |-> "P2002", target |-> bad, row |-> NoRow,
             acoes |-> acoes, nextId |-> nextId]
       ELSE [err |-> "", target |-> {}, row |-> row,
             acoes |-> acoes \cup {row},
             nextId |-> [nextId EXCEPT !.acao = @ + 1]]

(* prisma.acao.update({where: {id}, data}) *)
AcaoUpdate(id, data) ==
    LET old == FindById(acoes, id)
        row == Merge(old, data)
        bad == UniqueViolations(acoes, row, AcaoUnique)
    IN IF bancoFora
       THEN [err |-> "P1001", target |-> {}, row |-> NoRow, acoes |-> acoes]
       ELSE IF old.id = 0
       THEN [err |-> "P2025", target |-> {}, row |-> NoRow, acoes |-> acoes]
       ELSE IF bad # {}
       THEN [err |-> "P2002", target |-> bad, row |-> NoRow, acoes |-> acoes]
       ELSE [err |-> "", target |-> {}, row |-> row,
             acoes |-> (acoes \ {old}) \cup {row}]

(* prisma.acao.delete({where: {id}}): refused while an allocation refers    *)
(* to the asset (onDelete: Restrict).                                      *)
AcaoDelete(id) ==
    LET old == FindById(acoes, id)
    IN IF bancoFora
       THEN [err |-> "P1001", acoes |-> acoes]
       ELSE IF old.id = 0 THEN [err |-> "P2025", acoes |-> acoes]
       ELSE IF \E a \in alocacoes : a.acaoId = id
       THEN [err |-> "P2003", acoes |-> acoes]
       ELSE [err |-> "", acoes |-> acoes \ {old}]

(* include: {acao: true} *)
WithAcao(row) == [aloc |-> row, acao |-> FindById(acoes, row.acaoId)]

(* prisma.alocacaoCliente.create({data: {clienteId, acaoId, ...}}): both     *)
(* foreign keys must refer to a row, and (clienteId, acaoId) is unique.    *)
AlocacaoCreate(clienteId, acaoId, data) ==
    LET row == Merge([id |-> nextId.alocacao, clienteId |-> clienteId,
                      acaoId |-> acaoId, quantidade |-> Null,
                      valor_medio_aquisicao |-> Null,
                      data_ultima_compra |-> Null], data)
    IN IF bancoFora
       THEN [err |-> "P1001", row |-> NoRow, alocacoes |-> alocacoes,
             nextId |-> nextId]
       ELSE IF FindById(clientes, clienteId).id = 0 \/ FindById(acoes, acaoId).id = 0
       THEN [err |-> "P2003", row |-> NoRow, alocacoes |-> alocacoes,
             nextId |-> nextId]
       ELSE IF \E a \in alocacoes : a.clienteId = clienteId /\ a.acaoId = acaoId
       THEN [err |-> "P2002", row |-> NoRow, alocacoes |-> alocacoes,
             nextId |-> nextId]
       ELSE [err |-> "", row |-> row, alocacoes |-> alocacoes \cup {row},
             nextId |-> [nextId EXCEPT !.alocacao = @ + 1]]

(* prisma.alocacaoCliente.update({where: {id}, data}) *)
AlocacaoUpdate(id, data) ==
    LET old == FindById(alocacoes, id)
        row == Merge(old, data)
    IN IF bancoFora
       THEN [err |-> "P1001", row |-> NoRow, alocacoes |-> alocacoes]
       ELSE IF old.id = 0
       THEN [err |-> "P2025", row |-> NoRow, alocacoes |-> alocacoes]
       ELSE [err |-> "", row |-> row, alocacoes |-> (alocacoes \ {old}) \cup {row}]

(* prisma.alocacaoCliente.delete({where: {id}}) *)
AlocacaoDelete(id) ==
    LET old == FindById(alocacoes, id)
    IN IF bancoFora
       THEN [err |-> "P1001", alocacoes |-> alocacoes]
       ELSE IF old.id = 0 THEN [err |-> "P2025", alocacoes |-> alocacoes]
       ELSE [err |-> "", alocacoes |-> alocacoes \ {old}]

---------------------------------------------------------------------------
(* Responses                                                               *)

EmptyBody == [f \in {} |-> Null]
NoParams == [id |-> <<>>]
NoData == {}

(* What a request carries: path parameters, a JSON body, a query string.    *)
Request(params, body, query) == [params |-> params, body |-> body, query |-> query]
NoRequest == Request(NoParams, EmptyBody, EmptyBody)

(* reply.status(status).send(...): the handlers send either a record (or a  *)
(* list of records) or an object {message: msg}; `keys` holds the keys of   *)
(* the object sent in the second case.                                     *)
Reply(route, req, status, msg, data, calls) ==
    [route |-> route, req |-> req, status |-> status, msg |-> msg,
     data |-> data, dbCalls |-> calls,
     keys |-> IF msg = "" THEN {} ELSE {"message"}]

(* Fastify runs the route's schemas before the handler and answers 400      *)
(* itself when one fails, with its own error object.                       *)
Invalid(route, req) ==
    [Reply(route, req, 400, "validation", NoData, 0)
        EXCEPT !.keys = {"statusCode", "code", "error", "message"}]

---------------------------------------------------------------------------
(* The process: start() and gracefulShutdown() of server.ts.  `listener`    *)
(* is the HTTP listener, `start` the position of start(), `shutdown[s]`     *)
(* the position of the gracefulShutdown() run that signal s started,        *)
(* `prisma` the connection of the Prisma client (it connects on the first   *)
(* query), `exitCode` the status of process.exit (-1 while running).        *)

Signals == {"SIGINT", "SIGTERM"}

ProcessoInicial ==
    [listener |-> "starting", start |-> "listen", prisma |-> "idle",
     exitCode |-> -1, shutdown |-> [s \in Signals |-> "none"]]

Running == processo.exitCode = -1

(* A request is taken only while the listener is open. *)
Accepting == Running /\ processo.listener = "listening"

(* What a handler step leaves of the process: a query connects the client. *)
Served ==
    /\ processo' = [processo EXCEPT
                       !.prisma = IF resp'.dbCalls > 0 /\ ~bancoFora
                                  THEN "connected" ELSE @]
    /\ UNCHANGED bancoFora

(* start(): await fastify.listen({port, host}) resolves. *)
StartListenOk ==
    /\ Running
    /\ processo.start = "listen"
    /\ processo' = [processo EXCEPT
                       !.start = "done",
                       !.listener = IF @ = "starting" THEN "listening" ELSE @]
    /\ UNCHANGED <<db, inflight, resp, bancoFora>>

(* start(): fastify.listen rejects; the catch logs and calls               *)
(* prisma.$disconnect().                                                   *)
StartListenFails ==
    /\ Running
    /\ processo.start = "listen"
    /\ processo' = [processo EXCEPT
                       !.start = "exit",
                       !.listener = IF @ = "starting" THEN "failed" ELSE @,
                       !.prisma = "disconnected"]
    /\ UNCHANGED <<db, inflight, resp, bancoFora>>

(* start(): the await of prisma.$disconnect() resolves; process.exit(1). *)
StartExit ==
    /\ Running
    /\ processo.start = "exit"
    /\ processo' = [processo EXCEPT !.start = "exited", !.exitCode = 1]
    /\ UNCHANGED <<db, inflight, resp, bancoFora>>

(* process.on(s, ...): gracefulShutdown(s) logs and calls fastify.close(),  *)
(* after which the listener takes no new request.                          *)
Signal(s) ==
    /\ Running
    /\ processo.shutdown[s] = "none"
    /\ processo' = [processo EXCEPT
                       !.shutdown[s] = "close",
                       !.listener = IF @ = "closed" THEN @ ELSE "closing"]
    /\ UNCHANGED <<db, inflight, resp, bancoFora>>

(* fastify.close() completes once the requests in flight are answered. *)
CloseDone ==
    /\ Running
    /\ processo.listener = "closing"
    /\ \A w \in DOMAIN inflight : inflight[w].pc = "idle"
    /\ processo' = [processo EXCEPT !.listener = "closed"]
    /\ UNCHANGED <<db, inflight, resp, bancoFora>>

(* Mutant: gracefulShutdown calls prisma.$disconnect() without awaiting     *)
(* fastify.close().                                                        *)
ShutdownDisconnectSemClose(s) ==
    /\ Running
    /\ processo.shutdown[s] = "close"
    /\ processo' = [processo EXCEPT !.shutdown[s] = "disconnect",
                                    !.prisma = "disconnected"]
    /\ UNCHANGED <<db, inflight, resp, bancoFora>>

(* gracefulShutdown: the await of fastify.close() resolves; it calls        *)
(* prisma.$disconnect().                                                   *)
ShutdownDisconnect(s) ==
    /\ Running
    /\ processo.shutdown[s] = "close"
    /\ processo.listener = "closed"
    /\ processo' = [processo EXCEPT !.shutdown[s] = "disconnect",
                                    !.prisma = "disconnected"]
    /\ UNCHANGED <<db, inflight, resp, bancoFora>>

(* gracefulShutdown: the await of prisma.$disconnect() resolves; it logs    *)
(* and calls process.exit(0).                                              *)
ShutdownExit(s) ==
    /\ Running
    /\ processo.shutdown[s] = "disconnect"
    /\ processo' = [processo EXCEPT !.shutdown[s] = "exit", !.exitCode = 0]
    /\ UNCHANGED <<db, inflight, resp, bancoFora>>

(* The database stops answering, and answers again. *)
BancoCai ==
    /\ Running
    /\ ~bancoFora
    /\ bancoFora' = TRUE
    /\ UNCHANGED <<db, inflight, resp, processo>>

BancoVolta ==
    /\ Running
    /\ bancoFora
    /\ bancoFora' = FALSE
    /\ UNCHANGED <<db, inflight, resp, processo>>

---------------------------------------------------------------------------
(* Routes for customers                                                    *)

LowerCh(c) ==
    CASE c = "A" -> "a" [] c = "B" -> "b" [] c = "E" -> "e" [] c = "N" -> "n"
      [] OTHER -> c

Lower(s) == [i \in 1..Len(s) |-> LowerCh(s[i])]

(* contains, mode: 'insensitive' *)
ContainsInsensitive(s, sub) ==
    \E i \in 0..(Len(s) - Len(sub)) :
        Lower(SubSeq(s, i + 1, i + Len(sub))) = Lower(sub)

(* Mutant: the catch has no P2002 branch. *)
PostClientesSemP2002(body) ==
    /\ Accepting
    /\ LET route == "POST /clientes"
           req == Request(NoParams, body, EmptyBody)
           v == createClienteSchema(body)
           r == ClienteCreate(v.data)
       IN IF ~v.ok
          THEN resp' = Invalid(route, req) /\ UNCHANGED <<db, inflight>>
          ELSE /\ r.err = "" => nextId.cliente <= MaxClienteId
               /\ clientes' = r.clientes
               /\ nextId' = r.nextId
               /\ resp' = CASE r.err = "" -> Reply(route, req, 201, "", {r.row}, 1)
                            [] OTHER -> Reply(route, req, 500, "Erro interno", NoData, 1)
               /\ UNCHANGED <<acoes, alocacoes, inflight>>
    /\ Served

(* POST /clientes *)
PostClientes(body) ==
    /\ Accepting
    /\ LET route == "POST /clientes"
           req == Request(NoParams, body, EmptyBody)
           v == createClienteSchema(body)
           r == ClienteCreate(v.data)
       IN IF ~v.ok
          THEN resp' = Invalid(route, req) /\ UNCHANGED <<db, inflight>>
          ELSE /\ r.err = "" => nextId.cliente <= MaxClienteId
               /\ clientes' = r.clientes
               /\ nextId' = r.nextId
               /\ resp' = CASE r.err = "" -> Reply(route, req, 201, "", {r.row}, 1)
                            [] r.err = "P2002" -> Reply(route, req, 409, "Conflito", NoData, 1)
                            [] OTHER -> Reply(route, req, 500, "Erro interno", NoData, 1)
               /\ UNCHANGED <<acoes, alocacoes, inflight>>
    /\ Served

(* GET /clientes *)
GetClientes ==
    /\ Accepting
    /\ /\ resp' = IF bancoFora
                     THEN Reply("GET /clientes", NoRequest, 500, "Erro interno", NoData, 1)
                     ELSE Reply("GET /clientes", NoRequest, 200, "", clientes, 1)
       /\ UNCHANGED <<db, inflight>>
    /\ Served

(* GET /clientes/buscar *)
GetClientesBuscar(query) ==
    /\ Accepting
    /\ LET route == "GET /clientes/buscar"
           req == Request(NoParams, EmptyBody, query)
           v == buscarClienteQuerySchema(query)
           found == IF Truthy(query, "cpf_cnpj")
                    THEN {c \in clientes : c.cpf_cnpj.v = query.cpf_cnpj}
                    ELSE IF Truthy(query, "nome_completo")
                    THEN {c \in clientes :
                             ContainsInsensitive(c.nome_completo.v, query.nome_completo)}
                    ELSE {}
       IN /\ IF ~v.ok THEN resp' = Invalid(route, req)
             ELSE IF bancoFora
             THEN resp' = Reply(route, req, 500, "Erro interno", NoData, 1)
             ELSE IF found = {}
             THEN resp' = Reply(route, req, 404, "Cliente nao encontrado.", NoData, 1)
             ELSE \E c \in found : resp' = Reply(route, req, 200, "", {c}, 1)
          /\ UNCHANGED <<db, inflight>>
    /\ Served

(* GET /clientes/:id *)
GetClienteById(params) ==
    /\ Accepting
    /\ LET route == "GET /clientes/:id"
           req == Request(params, EmptyBody, EmptyBody)
           p == clienteIdParamSchema(params)
           c == FindById(clientes, p.data.id)
       IN /\ resp' = IF ~p.ok THEN Invalid(route, req)
                     ELSE IF bancoFora
                     THEN Reply(route, req, 500, "Erro interno", NoData, 1)
                     ELSE IF c.id = 0
                     THEN Reply(route, req, 404, "Cliente nao encontrado.", NoData, 1)
                     ELSE Reply(route, req, 200, "", {c}, 1)
          /\ UNCHANGED <<db, inflight>>
    /\ Served

(* Mutant: the update replaces the record, absent fields becoming null. *)
PutClientesSubstitui(params, body) ==
    /\ Accepting
    /\ LET route == "PUT /clientes/:id"
           req == Request(params, body, EmptyBody)
           p == clienteIdParamSchema(params)
           v == updateClienteSchema(body)
           vazio == [nome_completo |-> Null, telefone |-> Null, data_nascimento |-> Null]
           r == ClienteUpdate(p.data.id, Merge(vazio, v.data))
       IN IF ~(p.ok /\ v.ok)
          THEN resp' = Invalid(route, req) /\ UNCHANGED <<db, inflight>>
          ELSE /\ clientes' = r.clientes
               /\ resp' = CASE r.err = "" -> Reply(route, req, 200, "", {r.row}, 1)
                            [] r.err = "P2025" ->
                                 Reply(route, req, 404, "Cliente nao encontrado para atualizacao.", NoData, 1)
                            [] r.err = "P2002" -> Reply(route, req, 409, "Conflito", NoData, 1)
                            [] OTHER -> Reply(route, req, 500, "Erro interno", NoData, 1)
               /\ UNCHANGED <<acoes, alocacoes, nextId, inflight>>
    /\ Served

(* PUT /clientes/:id *)
PutClientes(params, body) ==
    /\ Accepting
    /\ LET route == "PUT /clientes/:id"
           req == Request(params, body, EmptyBody)
           p == clienteIdParamSchema(params)
           v == updateClienteSchema(body)
           r == ClienteUpdate(p.data.id, v.data)
       IN IF ~(p.ok /\ v.ok)
          THEN resp' = Invalid(route, req) /\ UNCHANGED <<db, inflight>>
          ELSE /\ clientes' = r.clientes
               /\ resp' = CASE r.err = "" -> Reply(route, req, 200, "", {r.row}, 1)
                            [] r.err = "P2025" ->
                                 Reply(route, req, 404, "Cliente nao encontrado para atualizacao.", NoData, 1)
                            [] r.err = "P2002" -> Reply(route, req, 409, "Conflito", NoData, 1)
                            [] OTHER -> Reply(route, req, 500, "Erro interno", NoData, 1)
               /\ UNCHANGED <<acoes, alocacoes, nextId, inflight>>
    /\ Served

(* Mutant: the catch answers 200 for P2025 as well. *)
DeleteClientesSempre200(params) ==
    /\ Accepting
    /\ LET route == "DELETE /clientes/:id"
           req == Request(params, EmptyBody, EmptyBody)
           p == clienteIdParamSchema(params)
           r == ClienteDelete(p.data.id)
       IN IF ~p.ok
          THEN resp' = Invalid(route, req) /\ UNCHANGED <<db, inflight>>
          ELSE /\ clientes' = r.clientes
               /\ alocacoes' = r.alocacoes
               /\ resp' = CASE r.err \in {"", "P2025"} ->
                                 Reply(route, req, 200, "Cliente deletado com sucesso.", NoData, 1)
                            [] OTHER -> Reply(route, req, 500, "Erro interno", NoData, 1)
               /\ UNCHANGED <<acoes, nextId, inflight>>
    /\ Served

(* DELETE /clientes/:id *)
DeleteClientes(params) ==
    /\ Accepting
    /\ LET route == "DELETE /clientes/:id"
           req == Request(params, EmptyBody, EmptyBody)
           p == clienteIdParamSchema(params)
           r == ClienteDelete(p.data.id)
       IN IF ~p.ok
          THEN resp' = Invalid(route, req) /\ UNCHANGED <<db, inflight>>
          ELSE /\ clientes' = r.clientes
               /\ alocacoes' = r.alocacoes
               /\ resp' = CASE r.err = "" ->
                                 Reply(route, req, 200, "Cliente deletado com sucesso.", NoData, 1)
                            [] r.err = "P2025" ->
                                 Reply(route, req, 404, "Cliente nao encontrado para delecao.", NoData, 1)
                            [] OTHER -> Reply(route, req, 500, "Erro interno", NoData, 1)
               /\ UNCHANGED <<acoes, nextId, inflight>>
    /\ Served

---------------------------------------------------------------------------
(* Routes for assets                                                       *)

(* Mutant: the catch of POST /acoes has no branch for P2002. *)
PostAcoesSemP2002(body) ==
    /\ Accepting
    /\ LET route == "POST /acoes"
           req == Request(NoParams, body, EmptyBody)
           v == createAcaoSchema(body)
           r == AcaoCreate(v.data)
       IN IF ~v.ok
          THEN resp' = Invalid(route, req) /\ UNCHANGED <<db, inflight>>
          ELSE /\ r.err = "" => nextId.acao <= MaxAcaoId
               /\ acoes' = r.acoes
               /\ nextId' = r.nextId
               /\ resp' = CASE r.err = "" -> Reply(route, req, 201, "", {r.row}, 1)
                            [] OTHER -> Reply(route, req, 500, "Erro interno", NoData, 1)
               /\ UNCHANGED <<clientes, alocacoes, inflight>>
    /\ Served

(* POST /acoes *)
PostAcoes(body) ==
    /\ Accepting
    /\ LET route == "POST /acoes"
           req == Request(NoParams, body, EmptyBody)
           v == createAcaoSchema(body)
           r == AcaoCreate(v.data)
       IN IF ~v.ok
          THEN resp' = Invalid(route, req) /\ UNCHANGED <<db, inflight>>
          ELSE /\ r.err = "" => nextId.acao <= MaxAcaoId
               /\ acoes' = r.acoes
               /\ nextId' = r.nextId
               /\ resp' = CASE r.err = "" -> Reply(route, req, 201, "", {r.row}, 1)
                            [] r.err = "P2002" -> Reply(route, req, 409, "Conflito", NoData, 1)
                            [] OTHER -> Reply(route, req, 500, "Erro interno", NoData, 1)
               /\ UNCHANGED <<clientes, alocacoes, inflight>>
    /\ Served

(* GET /acoes *)
GetAcoes ==
    /\ Accepting
    /\ /\ resp' = IF bancoFora
                     THEN Reply("GET /acoes", NoRequest, 500, "Erro interno", NoData, 1)
                     ELSE Reply("GET /acoes", NoRequest, 200, "", acoes, 1)
       /\ UNCHANGED <<db, inflight>>
    /\ Served

(* GET /acoes/:id *)
GetAcaoById(params) ==
    /\ Accepting
    /\ LET route == "GET /acoes/:id"
           req == Request(params, EmptyBody, EmptyBody)
           p == acaoIdParamSchema(params)
           a == FindById(acoes, p.data.id)
       IN /\ resp' = IF ~p.ok THEN Invalid(route, req)
                     ELSE IF bancoFora
                     THEN Reply(route, req, 500, "Erro interno", NoData, 1)
                     ELSE IF a.id = 0
                     THEN Reply(route, req, 404, "Acao nao encontrada.", NoData, 1)
                     ELSE Reply(route, req, 200, "", {a}, 1)
          /\ UNCHANGED <<db, inflight>>
    /\ Served

(* Mutant: the route declares no body schema. *)
PutAcoesSemBodySchema(params, body) ==
    /\ Accepting
    /\ LET route == "PUT /acoes/:id"
           req == Request(params, body, EmptyBody)
           p == acaoIdParamSchema(params)
           r == AcaoUpdate(p.data.id, body)
       IN IF ~p.ok
          THEN resp' = Invalid(route, req) /\ UNCHANGED <<db, inflight>>
          ELSE /\ acoes' = r.acoes
               /\ resp' = CASE r.err = "" -> Reply(route, req, 200, "", {r.row}, 1)
                            [] r.err = "P2025" ->
                                 Reply(route, req, 404, "Acao nao encontrada para atualizacao.", NoData, 1)
                            [] r.err = "P2002" -> Reply(route, req, 409, "Conflito", NoData, 1)
                            [] OTHER -> Reply(route, req, 500, "Erro interno", NoData, 1)
               /\ UNCHANGED <<clientes, alocacoes, nextId, inflight>>
    /\ Served

(* PUT /acoes/:id *)
PutAcoes(params, body) ==
    /\ Accepting
    /\ LET route == "PUT /acoes/:id"
           req == Request(params, body, EmptyBody)
           p == acaoIdParamSchema(params)
           v == updateAcaoSchema(body)
           r == AcaoUpdate(p.data.id, v.data)
       IN IF ~(p.ok /\ v.ok)
          THEN resp' = Invalid(route, req) /\ UNCHANGED <<db, inflight>>
          ELSE /\ acoes' = r.acoes
               /\ resp' = CASE r.err = "" -> Reply(route, req, 200, "", {r.row}, 1)
                            [] r.err = "P2025" ->
                                 Reply(route, req, 404, "Acao nao encontrada para atualizacao.", NoData, 1)
                            [] r.err = "P2002" -> Reply(route, req, 409, "Conflito", NoData, 1)
                            [] OTHER -> Reply(route, req, 500, "Erro interno", NoData, 1)
               /\ UNCHANGED <<clientes, alocacoes, nextId, inflight>>
    /\ Served

(* Mutant: the catch has no P2003 branch. *)
DeleteAcoesSemP2003(params) ==
    /\ Accepting
    /\ LET route == "DELETE /acoes/:id"
           req == Request(params, EmptyBody, EmptyBody)
           p == acaoIdParamSchema(params)
           r == AcaoDelete(p.data.id)
       IN IF ~p.ok
          THEN resp' = Invalid(route, req) /\ UNCHANGED <<db, inflight>>
          ELSE /\ acoes' = r.acoes
               /\ resp' = CASE r.err = "" ->
                                 Reply(route, req, 200, "Acao deletada com sucesso.", NoData, 1)
                            [] r.err = "P2025" ->
                                 Reply(route, req, 404, "Acao nao encontrada para delecao.", NoData, 1)
                            [] OTHER -> Reply(route, req, 500, "Erro interno", NoData, 1)
               /\ UNCHANGED <<clientes, alocacoes, nextId, inflight>>
    /\ Served

(* DELETE /acoes/:id *)
DeleteAcoes(params) ==
    /\ Accepting
    /\ LET route == "DELETE /acoes/:id"
           req == Request(params, EmptyBody, EmptyBody)
           p == acaoIdParamSchema(params)
           r == AcaoDelete(p.data.id)
       IN IF ~p.ok
          THEN resp' = Invalid(route, req) /\ UNCHANGED <<db, inflight>>
          ELSE /\ acoes' = r.acoes
               /\ resp' = CASE r.err = "" ->
                                 Reply(route, req, 200, "Acao deletada com sucesso.", NoData, 1)
                            [] r.err = "P2025" ->
                                 Reply(route, req, 404, "Acao nao encontrada para delecao.", NoData, 1)
                            [] r.err = "P2003" ->
                                 Reply(route, req, 409, "Nao e possivel deletar a acao pois ela esta alocada.", NoData, 1)
                            [] OTHER -> Reply(route, req, 500, "Erro interno", NoData, 1)
               /\ UNCHANGED <<clientes, alocacoes, nextId, inflight>>
    /\ Served

---------------------------------------------------------------------------
(* Routes for allocations                                                  *)

NumWorkers == 2
Workers == 1..NumWorkers

Idle == [pc |-> "idle", clienteId |-> 0, data |-> EmptyBody, req |-> NoRequest]

(* Mutant: the asset is looked up before the customer. *)
PostAlocacoesCheckAcaoPrimeiro(w, params, body) ==
    /\ Accepting
    /\ LET route == "POST /clientes/:id/alocacoes"
           req == Request(params, body, EmptyBody)
           p == clienteIdParamSchema(params)
           v == createAlocacaoSchema(body)
       IN /\ inflight[w].pc = "idle"
          /\ IF ~(p.ok /\ v.ok)
             THEN resp' = Invalid(route, req) /\ UNCHANGED inflight
             ELSE IF FindById(acoes, v.data.acaoId.v).id = 0
             THEN /\ resp' = Reply(route, req, 404, "Acao nao encontrada.", NoData, 1)
                  /\ UNCHANGED inflight
             ELSE IF FindById(clientes, p.data.id).id = 0
             THEN /\ resp' = Reply(route, req, 404, "Cliente nao encontrado.", NoData, 2)
                  /\ UNCHANGED inflight
             ELSE /\ resp' = Reply(route, req, 0, "", NoData, 2)
                  /\ inflight' = [inflight EXCEPT ![w] =
                        [pc |-> "create", clienteId |-> p.data.id,
                         data |-> v.data, req |-> req]]
          /\ UNCHANGED db
    /\ Served

(* POST /clientes/:id/alocacoes, up to the first await: the schemas, then   *)
(* prisma.cliente.findUnique.                                              *)
PostAlocacoesCheckCliente(w, params, body) ==
    /\ Accepting
    /\ LET route == "POST /clientes/:id/alocacoes"
           req == Request(params, body, EmptyBody)
           p == clienteIdParamSchema(params)
           v == createAlocacaoSchema(body)
       IN /\ inflight[w].pc = "idle"
          /\ IF ~(p.ok /\ v.ok)
             THEN resp' = Invalid(route, req) /\ UNCHANGED inflight
             ELSE IF bancoFora
             THEN /\ resp' = Reply(route, req, 500, "Erro interno ao criar alocacao.", NoData, 1)
                  /\ UNCHANGED inflight
             ELSE IF FindById(clientes, p.data.id).id = 0
             THEN /\ resp' = Reply(route, req, 404, "Cliente nao encontrado.", NoData, 1)
                  /\ UNCHANGED inflight
             ELSE /\ resp' = Reply(route, req, 0, "", NoData, 1)
                  /\ inflight' = [inflight EXCEPT ![w] =
                        [pc |-> "checkAcao", clienteId |-> p.data.id,
                         data |-> v.data, req |-> req]]
          /\ UNCHANGED db
    /\ Served

(* ... prisma.acao.findUnique *)
PostAlocacoesCheckAcao(w) ==
    /\ Running
    /\ LET route == "POST /clientes/:id/alocacoes"
           me == inflight[w]
       IN /\ me.pc = "checkAcao"
          /\ IF bancoFora
             THEN /\ resp' = Reply(route, me.req, 500, "Erro interno ao criar alocacao.", NoData, 2)
                  /\ inflight' = [inflight EXCEPT ![w] = Idle]
             ELSE IF FindById(acoes, me.data.acaoId.v).id = 0
             THEN /\ resp' = Reply(route, me.req, 404, "Acao nao encontrada.", NoData, 2)
                  /\ inflight' = [inflight EXCEPT ![w] = Idle]
             ELSE /\ resp' = Reply(route, me.req, 0, "", NoData, 2)
                  /\ inflight' = [inflight EXCEPT ![w].pc = "create"]
          /\ UNCHANGED db
    /\ Served

(* Mutant: the catch has no P2002 branch. *)
PostAlocacoesCreateSemP2002(w) ==
    /\ Running
    /\ LET route == "POST /clientes/:id/alocacoes"
           me == inflight[w]
           dados == [f \in DOMAIN me.data \ {"acaoId"} |-> me.data[f]]
           r == AlocacaoCreate(me.clienteId, me.data.acaoId.v, dados)
       IN /\ me.pc = "create"
          /\ r.err = "" => nextId.alocacao <= MaxAlocacaoId
          /\ alocacoes' = r.alocacoes
          /\ nextId' = r.nextId
          /\ resp' = CASE r.err = "" -> Reply(route, me.req, 201, "", {WithAcao(r.row)}, 3)
                       [] OTHER -> Reply(route, me.req, 500, "Erro interno ao criar alocacao.", NoData, 3)
          /\ inflight' = [inflight EXCEPT ![w] = Idle]
          /\ UNCHANGED <<clientes, acoes>>
    /\ Served

(* Mutant: the catch answers 404 for a foreign-key failure. *)
PostAlocacoesCreateP2003Como404(w) ==
    /\ Running
    /\ LET route == "POST /clientes/:id/alocacoes"
           me == inflight[w]
           dados == [f \in DOMAIN me.data \ {"acaoId"} |-> me.data[f]]
           r == AlocacaoCreate(me.clienteId, me.data.acaoId.v, dados)
       IN /\ me.pc = "create"
          /\ r.err = "" => nextId.alocacao <= MaxAlocacaoId
          /\ alocacoes' = r.alocacoes
          /\ nextId' = r.nextId
          /\ resp' = CASE r.err = "" -> Reply(route, me.req, 201, "", {WithAcao(r.row)}, 3)
                       [] r.err = "P2002" ->
                            Reply(route, me.req, 409, "Este cliente ja possui uma alocacao para esta acao.", NoData, 3)
                       [] r.err = "P2003" ->
                            Reply(route, me.req, 404, "Cliente nao encontrado.", NoData, 3)
                       [] OTHER -> Reply(route, me.req, 500, "Erro interno ao criar alocacao.", NoData, 3)
          /\ inflight' = [inflight EXCEPT ![w] = Idle]
          /\ UNCHANGED <<clientes, acoes>>
    /\ Served

(* ... prisma.alocacaoCliente.create and the response *)
PostAlocacoesCreate(w) ==
    /\ Running
    /\ LET route == "POST /clientes/:id/alocacoes"
           me == inflight[w]
           dados == [f \in DOMAIN me.data \ {"acaoId"} |-> me.data[f]]
           r == AlocacaoCreate(me.clienteId, me.data.acaoId.v, dados)
       IN /\ me.pc = "create"
          /\ r.err = "" => nextId.alocacao <= MaxAlocacaoId
          /\ alocacoes' = r.alocacoes
          /\ nextId' = r.nextId
          /\ resp' = CASE r.err = "" -> Reply(route, me.req, 201, "", {WithAcao(r.row)}, 3)
                       [] r.err = "P2002" ->
                            Reply(route, me.req, 409, "Este cliente ja possui uma alocacao para esta acao.", NoData, 3)
                       [] OTHER -> Reply(route, me.req, 500, "Erro interno ao criar alocacao.", NoData, 3)
          /\ inflight' = [inflight EXCEPT ![w] = Idle]
          /\ UNCHANGED <<clientes, acoes>>
    /\ Served

(* select: {id, nome_ativo, codigo_ticker, valor_atual} *)
AcaoResumo(a) ==
    [id |-> a.id, nome_ativo |-> a.nome_ativo, codigo_ticker |-> a.codigo_ticker,
     valor_atual |-> a.valor_atual]

(* Mutant: the handler looks the customer up and answers 404 without it. *)
GetAlocacoesCom404(params) ==
    /\ Accepting
    /\ LET route == "GET /clientes/:id/alocacoes"
           req == Request(params, EmptyBody, EmptyBody)
           p == clienteIdParamSchema(params)
       IN /\ resp' = IF ~p.ok THEN Invalid(route, req)
                     ELSE IF FindById(clientes, p.data.id).id = 0
                     THEN Reply(route, req, 404, "Cliente nao encontrado.", NoData, 1)
                     ELSE Reply(route, req, 200, "",
                                {[aloc |-> a, acao |-> AcaoResumo(FindById(acoes, a.acaoId))] :
                                    a \in {x \in alocacoes : x.clienteId = p.data.id}}, 2)
          /\ UNCHANGED <<db, inflight>>
    /\ Served

(* GET /clientes/:id/alocacoes *)
GetAlocacoes(params) ==
    /\ Accepting
    /\ LET route == "GET /clientes/:id/alocacoes"
           req == Request(params, EmptyBody, EmptyBody)
           p == clienteIdParamSchema(params)
       IN /\ resp' = IF ~p.ok THEN Invalid(route, req)
                     ELSE IF bancoFora
                     THEN Reply(route, req, 500, "Erro interno", NoData, 1)
                     ELSE Reply(route, req, 200, "",
                                {[aloc |-> a, acao |-> AcaoResumo(FindById(acoes, a.acaoId))] :
                                    a \in {x \in alocacoes : x.clienteId = p.data.id}}, 1)
          /\ UNCHANGED <<db, inflight>>
    /\ Served

(* Mutant: the references of the body reach the update. *)
PutAlocacoesComReferencias(params, body) ==
    /\ Accepting
    /\ LET route == "PUT /alocacoes/:id"
           req == Request(params, body, EmptyBody)
           p == alocacaoIdParamSchema(params)
           v == updateAlocacaoSchema(body)
           refs == DOMAIN body \cap {"acaoId", "clienteId"}
           dados == [f \in DOMAIN v.data \cup refs |->
                        IF f \in refs THEN body[f].v ELSE v.data[f]]
           r == AlocacaoUpdate(p.data.id, dados)
       IN IF ~(p.ok /\ v.ok)
          THEN resp' = Invalid(route, req) /\ UNCHANGED <<db, inflight>>
          ELSE /\ alocacoes' = r.alocacoes
               /\ resp' = CASE r.err = "" -> Reply(route, req, 200, "", {WithAcao(r.row)}, 1)
                            [] r.err = "P2025" ->
                                 Reply(route, req, 404, "Alocacao nao encontrada para atualizacao.", NoData, 1)
                            [] OTHER -> Reply(route, req, 500, "Erro interno", NoData, 1)
               /\ UNCHANGED <<clientes, acoes, nextId, inflight>>
    /\ Served

(* PUT /alocacoes/:id *)
PutAlocacoes(params, body) ==
    /\ Accepting
    /\ LET route == "PUT /alocacoes/:id"
           req == Request(params, body, EmptyBody)
           p == alocacaoIdParamSchema(params)
           v == updateAlocacaoSchema(body)
           r == AlocacaoUpdate(p.data.id, v.data)
       IN IF ~(p.ok /\ v.ok)
          THEN resp' = Invalid(route, req) /\ UNCHANGED <<db, inflight>>
          ELSE /\ alocacoes' = r.alocacoes
               /\ resp' = CASE r.err = "" -> Reply(route, req, 200, "", {WithAcao(r.row)}, 1)
                            [] r.err = "P2025" ->
                                 Reply(route, req, 404, "Alocacao nao encontrada para atualizacao.", NoData, 1)
                            [] OTHER -> Reply(route, req, 500, "Erro interno", NoData, 1)
               /\ UNCHANGED <<clientes, acoes, nextId, inflight>>
    /\ Served

(* Mutant: the P2025 branch of the catch is missing. *)
DeleteAlocacoesSemP2025(params) ==
    /\ Accepting
    /\ LET route == "DELETE /alocacoes/:id"
           req == Request(params, EmptyBody, EmptyBody)
           p == alocacaoIdParamSchema(params)
           r == AlocacaoDelete(p.data.id)
       IN IF ~p.ok
          THEN resp' = Invalid(route, req) /\ UNCHANGED <<db, inflight>>
          ELSE /\ alocacoes' = r.alocacoes
               /\ resp' = CASE r.err = "" ->
                                 Reply(route, req, 200, "Alocacao deletada com sucesso.", NoData, 1)
                            [] OTHER -> Reply(route, req, 500, "Erro interno", NoData, 1)
               /\ UNCHANGED <<clientes, acoes, nextId, inflight>>
    /\ Served

(* DELETE /alocacoes/:id *)
DeleteAlocacoes(params) ==
    /\ Accepting
    /\ LET route == "DELETE /alocacoes/:id"
           req == Request(params, EmptyBody, EmptyBody)
           p == alocacaoIdParamSchema(params)
           r == AlocacaoDelete(p.data.id)
       IN IF ~p.ok
          THEN resp' = Invalid(route, req) /\ UNCHANGED <<db, inflight>>
          ELSE /\ alocacoes' = r.alocacoes
               /\ resp' = CASE r.err = "" ->
                                 Reply(route, req, 200, "Alocacao deletada com sucesso.", NoData, 1)
                            [] r.err = "P2025" ->
                                 Reply(route, req, 404, "Alocacao nao encontrada para delecao.", NoData, 1)
                            [] OTHER -> Reply(route, req, 500, "Erro interno", NoData, 1)
               /\ UNCHANGED <<clientes, acoes, nextId, inflight>>
    /\ Served

---------------------------------------------------------------------------
(* Requests                                                                *)

NomeAna == <<"A", "n", "a">>
NomeBea == <<"B", "e", "a">>
NomeCurto == <<"A", "n">>
Cpf1 == <<"1", "2", "3", "4", "5", "6", "7", "8", "9", "0", "1">>
Cnpj2 == <<"1", "2", "3", "4", "5", "6", "7", "8", "0", "0", "0", "1", "9", "9">>
CpfCurto == <<"1", "2", "3">>
Tel1 == <<"1", "1", "9", "9", "9", "9", "8", "8", "8", "8">>
Email1 == <<"a", "@", "x", ".", "i", "o">>
Email2 == <<"b", "@", "x", ".", "i", "o">>
EmailRuim == <<"a", "x", ".", "i", "o">>
Data1 == <<"2", "0", "0", "0", "-", "0", "1", "-", "1", "0">>
Data2 == <<"2", "0", "2", "4", "-", "0", "1", "-", "1", "0">>
DataRuim == <<"x", "x">>
AtivoPetro == <<"P", "e", "t", "r", "o">>
AtivoVale == <<"V", "a", "l", "e">>
TickerPetr4 == <<"P", "E", "T", "R", "4">>
TickerVale3 == <<"V", "A", "L", "E", "3">>
TickerRuim == <<"p", "e", "t", "r", "4">>
Trinta == <<"3", "0">>

ClienteBody(nome, cpf, email) ==
    [nome_completo |-> Str(nome), cpf_cnpj |-> Str(cpf), telefone |-> Str(Tel1),
     data_nascimento |-> Str(Data1), email |-> Str(email)]

AcaoBody(nome, ticker) ==
    [nome_ativo |-> Str(nome), codigo_ticker |-> Str(ticker),
     valor_atual |-> Str(Trinta)]

AlocacaoBody(acaoId) ==
    [acaoId |-> Num(acaoId), quantidade |-> Num(100),
     valor_medio_aquisicao |-> Num(28), data_ultima_compra |-> Str(Data2)]

(* Bodies that differ in the unique columns. *)
ClienteBodiesUnicos ==
    {ClienteBody(NomeAna, c, e) : c \in {Cpf1, Cnpj2}, e \in {Email1, Email2}}

ClienteBodiesInvalidos ==
    {ClienteBody(NomeCurto, Cpf1, Email1),
     ClienteBody(NomeAna, CpfCurto, Email1),
     ClienteBody(NomeAna, Cpf1, EmailRuim),
     [nome_completo |-> Str(NomeAna), cpf_cnpj |-> Str(Cpf1)]}

UpdateClienteBodies ==
    {EmptyBody,
     [endereco |-> Str(NomeAna)],
     [nome_completo |-> Str(NomeBea)],
     [cpf_cnpj |-> Str(Cnpj2)],
     [email |-> Str(Email2)],
     [nome_completo |-> Str(NomeBea), email |-> Str(Email1)],
     [email |-> Str(EmailRuim)],
     [data_nascimento |-> Str(DataRuim)]}

BuscarQueries ==
    {EmptyBody,
     [cpf_cnpj |-> Cpf1],
     [cpf_cnpj |-> Cnpj2],
     [nome_completo |-> <<"a", "N">>],
     [nome_completo |-> NomeBea],
     [nome_completo |-> NomeAna, cpf_cnpj |-> Cpf1],
     [nome_completo |-> <<>>, cpf_cnpj |-> Cpf1],
     [nome_completo |-> <<>>]}

AcaoBodiesUnicos ==
    {AcaoBody(n, k) : n \in {AtivoPetro, AtivoVale}, k \in {TickerPetr4, TickerVale3}}

AcaoBodiesInvalidos ==
    {AcaoBody(AtivoPetro, TickerRuim),
     [nome_ativo |-> Str(AtivoPetro), codigo_ticker |-> Str(TickerPetr4),
      valor_atual |-> Num(0)],
     [nome_ativo |-> Str(AtivoPetro)]}

AlocacaoBodiesInvalidos ==
    {[acaoId |-> Str(<<"1">>), quantidade |-> Num(100),
      valor_medio_aquisicao |-> Num(28), data_ultima_compra |-> Str(Data2)],
     [acaoId |-> Num(1), quantidade |-> Num(0),
      valor_medio_aquisicao |-> Num(28), data_ultima_compra |-> Str(Data2)],
     [acaoId |-> Num(1), quantidade |-> Num(100)]}

IdsValidos == {[id |-> <<"1">>], [id |-> <<"2">>]}
IdsInvalidos == {[id |-> <<"0">>], [id |-> <<"a">>]}
IdParams == IdsValidos \cup IdsInvalidos

---------------------------------------------------------------------------
Init ==
    /\ clientes = {}
    /\ acoes = {}
    /\ alocacoes = {}
    /\ nextId = [cliente |-> 1, acao |-> 1, alocacao |-> 1]
    /\ inflight = [w \in Workers |-> Idle]
    /\ resp = Reply("", NoRequest, 0, "", NoData, 0)
    /\ processo = ProcessoInicial
    /\ bancoFora = FALSE

IdsSpec == {[id |-> <<"1">>], [id |-> <<"2">>], [id |-> <<"a">>]}

(* Every route, one request in flight at a time on the multi-step route.    *)
Next ==
    \/ StartListenOk
    \/ \E body \in {ClienteBody(NomeAna, Cpf1, Email1), ClienteBody(NomeCurto, Cpf1, Email1)} :
          PostClientes(body)
    \/ GetClientes
    \/ \E query \in {EmptyBody, [cpf_cnpj |-> Cpf1]} : GetClientesBuscar(query)
    \/ \E params \in IdsSpec : GetClienteById(params)
    \/ \E params \in IdsSpec,
          body \in {EmptyBody, [nome_completo |-> Str(NomeBea)], [email |-> Str(EmailRuim)]} :
          PutClientes(params, body)
    \/ \E params \in IdsSpec : DeleteClientes(params)
    \/ \E body \in {AcaoBody(AtivoPetro, TickerPetr4), AcaoBody(AtivoPetro, TickerRuim)} :
          PostAcoes(body)
    \/ GetAcoes
    \/ \E params \in IdsSpec : GetAcaoById(params)
    \/ \E params \in IdsSpec,
          body \in {EmptyBody, [valor_atual |-> Num(31)], [valor_atual |-> Num(0)]} :
          PutAcoes(params, body)
    \/ \E params \in IdsSpec : DeleteAcoes(params)
    \/ \E params \in IdsSpec,
          body \in {AlocacaoBody(1), [acaoId |-> Num(1), quantidade |-> Num(100)]} :
          PostAlocacoesCheckCliente(1, params, body)
    \/ PostAlocacoesCheckAcao(1)
    \/ PostAlocacoesCreate(1)
    \/ \E params \in IdsSpec : GetAlocacoes(params)
    \/ \E params \in IdsSpec,
          body \in {EmptyBody, [quantidade |-> Num(150)], [quantidade |-> Num(0)]} :
          PutAlocacoes(params, body)
    \/ \E params \in IdsSpec : DeleteAlocacoes(params)

Spec == Init /\ [][Next]_vars

(* The customer routes alone, with every kind of body. *)
NextClientes ==
    \/ StartListenOk
    \/ \E body \in ClienteBodiesUnicos \cup ClienteBodiesInvalidos : PostClientes(body)
    \/ GetClientes
    \/ \E query \in BuscarQueries : GetClientesBuscar(query)
    \/ \E params \in IdParams : GetClienteById(params)
    \/ \E params \in IdParams, body \in UpdateClienteBodies : PutClientes(params, body)
    \/ \E params \in IdParams : DeleteClientes(params)

SpecClientes == Init /\ [][NextClientes]_vars

(* Creates, updates and deletes of customers and assets whose bodies        *)
(* differ in the unique columns.                                           *)
NextCadastro ==
    \/ StartListenOk
    \/ \E body \in ClienteBodiesUnicos \cup {ClienteBody(NomeAna, CpfCurto, Email1)} :
          PostClientes(body)
    \/ \E params \in IdsValidos,
          body \in {[cpf_cnpj |-> Str(Cpf1)], [cpf_cnpj |-> Str(Cnpj2)],
                    [email |-> Str(Email1)], [email |-> Str(Email2)]} :
          PutClientes(params, body)
    \/ \E params \in IdsValidos : DeleteClientes(params)
    \/ \E body \in AcaoBodiesUnicos \cup {AcaoBody(AtivoPetro, TickerRuim)} :
          PostAcoes(body)
    \/ \E params \in IdsValidos,
          body \in {[nome_ativo |-> Str(AtivoPetro)], [nome_ativo |-> Str(AtivoVale)],
                    [codigo_ticker |-> Str(TickerPetr4)],
                    [codigo_ticker |-> Str(TickerVale3)]} :
          PutAcoes(params, body)
    \/ \E params \in IdsValidos : DeleteAcoes(params)

SpecCadastro == Init /\ [][NextCadastro]_vars

(* Concurrent requests on POST /clientes/:id/alocacoes, interleaved with    *)
(* creates of the rows they refer to and deletes of the first of them.     *)
NextAlocacoes ==
    \/ StartListenOk
    \/ PostClientes(ClienteBody(NomeAna, Cpf1, Email1))
    \/ DeleteClientes([id |-> <<"1">>])
    \/ PostAcoes(AcaoBody(AtivoPetro, TickerPetr4))
    \/ DeleteAcoes([id |-> <<"1">>])
    \/ \E w \in Workers, params \in IdsValidos, body \in {AlocacaoBody(1), AlocacaoBody(2)} :
          PostAlocacoesCheckCliente(w, params, body)
    \/ \E w \in Workers : PostAlocacoesCheckAcao(w)
    \/ \E w \in Workers : PostAlocacoesCreate(w)
    \/ \E params \in IdsValidos : DeleteAlocacoes(params)

SpecAlocacoes == Init /\ [][NextAlocacoes]_vars

(* Two customers holding allocations of one asset, and the deletes.        *)
NextCarteira ==
    \/ StartListenOk
    \/ \E body \in {ClienteBody(NomeAna, Cpf1, Email1), ClienteBody(NomeBea, Cnpj2, Email2)} :
          PostClientes(body)
    \/ \E params \in IdsValidos : DeleteClientes(params)
    \/ PostAcoes(AcaoBody(AtivoPetro, TickerPetr4))
    \/ \E params \in IdsValidos : DeleteAcoes(params)
    \/ \E params \in IdsValidos : PostAlocacoesCheckCliente(1, params, AlocacaoBody(1))
    \/ PostAlocacoesCheckAcao(1)
    \/ PostAlocacoesCreate(1)
    \/ \E params \in IdsValidos : DeleteAlocacoes(params)

SpecCarteira == Init /\ [][NextCarteira]_vars

(* Partial updates of each kind of record, and the reads that follow.      *)
NextAtualizacoes ==
    \/ StartListenOk
    \/ \E body \in {ClienteBody(NomeAna, Cpf1, Email1), ClienteBody(NomeAna, Cnpj2, Email2)} :
          PostClientes(body)
    \/ \E params \in IdsValidos,
          body \in {[nome_completo |-> Str(NomeBea), data_nascimento |-> Str(Data2)]} :
          PutClientes(params, body)
    \/ \E params \in IdsValidos : GetClienteById(params)
    \/ PostAcoes(AcaoBody(AtivoPetro, TickerPetr4))
    \/ PutAcoes([id |-> <<"1">>], [valor_atual |-> Str(<<"3", "1">>), descricao |-> Null])
    \/ GetAcaoById([id |-> <<"1">>])
    \/ \E params \in IdsValidos : PostAlocacoesCheckCliente(1, params, AlocacaoBody(1))
    \/ PostAlocacoesCheckAcao(1)
    \/ PostAlocacoesCreate(1)
    \/ \E params \in IdsValidos :
          PutAlocacoes(params, [quantidade |-> Num(150), acaoId |-> Num(2)])
    \/ \E params \in IdsValidos : GetAlocacoes(params)

SpecAtualizacoes == Init /\ [][NextAtualizacoes]_vars

(* Allocations of two customers, and updates whose bodies carry the        *)
(* references besides the updatable fields.                                *)
NextReferencias ==
    \/ StartListenOk
    \/ \E body \in {ClienteBody(NomeAna, Cpf1, Email1), ClienteBody(NomeBea, Cnpj2, Email2)} :
          PostClientes(body)
    \/ DeleteClientes([id |-> <<"1">>])
    \/ \E body \in {AcaoBody(AtivoPetro, TickerPetr4), AcaoBody(AtivoVale, TickerVale3)} :
          PostAcoes(body)
    \/ \E params \in IdsValidos : PostAlocacoesCheckCliente(1, params, AlocacaoBody(1))
    \/ PostAlocacoesCheckAcao(1)
    \/ PostAlocacoesCreate(1)
    \/ \E params \in IdsValidos,
          body \in {[acaoId |-> Num(2)],
                    [clienteId |-> Num(2), quantidade |-> Num(150)],
                    [acaoId |-> Num(2), clienteId |-> Num(2),
                     data_ultima_compra |-> Str(Data1)]} :
          PutAlocacoes(params, body)
    \/ \E params \in IdsValidos : DeleteAlocacoes(params)

SpecReferencias == Init /\ [][NextReferencias]_vars

(* Creates, updates and deletes of the three entities while the database    *)
(* stops answering and answers again.                                      *)
NextFalhas ==
    \/ StartListenOk
    \/ BancoCai
    \/ BancoVolta
    \/ \E body \in {ClienteBody(NomeAna, Cpf1, Email1), ClienteBody(NomeBea, Cnpj2, Email2)} :
          PostClientes(body)
    \/ \E params \in IdsValidos : PutClientes(params, [email |-> Str(Email2)])
    \/ DeleteClientes([id |-> <<"1">>])
    \/ \E body \in {AcaoBody(AtivoPetro, TickerPetr4), AcaoBody(AtivoVale, TickerVale3)} :
          PostAcoes(body)
    \/ \E params \in IdsValidos : PutAcoes(params, [codigo_ticker |-> Str(TickerVale3)])
    \/ DeleteAcoes([id |-> <<"1">>])
    \/ PostAlocacoesCheckCliente(1, [id |-> <<"1">>], AlocacaoBody(1))
    \/ PostAlocacoesCheckAcao(1)
    \/ PostAlocacoesCreate(1)
    \/ PutAlocacoes([id |-> <<"1">>], [quantidade |-> Num(150)])
    \/ DeleteAlocacoes([id |-> <<"1">>])

SpecFalhas == Init /\ [][NextFalhas]_vars

(* The life of the process: start, requests, signals, exit.  The steps of   *)
(* start() and gracefulShutdown() and the continuations of a handler are    *)
(* promise continuations, which the event loop runs once they are ready.    *)
NextProcesso ==
    \/ StartListenOk
    \/ StartListenFails
    \/ StartExit
    \/ \E s \in Signals : Signal(s)
    \/ CloseDone
    \/ \E s \in Signals : ShutdownDisconnect(s)
    \/ \E s \in Signals : ShutdownExit(s)
    \/ PostClientes(ClienteBody(NomeAna, Cpf1, Email1))
    \/ PostAcoes(AcaoBody(AtivoPetro, TickerPetr4))
    \/ \E w \in Workers : PostAlocacoesCheckCliente(w, [id |-> <<"1">>], AlocacaoBody(1))
    \/ \E w \in Workers : PostAlocacoesCheckAcao(w)
    \/ \E w \in Workers : PostAlocacoesCreate(w)
    \/ GetClientes

SpecProcesso ==
    /\ Init /\ [][NextProcesso]_vars
    /\ WF_vars(StartExit)
    /\ WF_vars(CloseDone)
    /\ \A s \in Signals : WF_vars(ShutdownDisconnect(s)) /\ WF_vars(ShutdownExit(s))
    /\ \A w \in Workers : WF_vars(PostAlocacoesCheckAcao(w)) /\ WF_vars(PostAlocacoesCreate(w))

---------------------------------------------------------------------------
(* Properties.  A response names its route and its request, so a property   *)
(* of a route is stated on the steps that produce a response of that route: *)
(* unprimed tables are those the request found, primed ones those it left.  *)

IdOf(params) == IdParamSchema(params).data.id

PutRoutes == {"PUT /clientes/:id", "PUT /acoes/:id", "PUT /alocacoes/:id"}

UpdateSchemaOf(route, body) ==
    CASE route = "PUT /clientes/:id" -> updateClienteSchema(body)
      [] route = "PUT /acoes/:id" -> updateAcaoSchema(body)
      [] route = "PUT /alocacoes/:id" -> updateAlocacaoSchema(body)

ByIdRoutes ==
    {"GET /clientes/:id", "PUT /clientes/:id", "DELETE /clientes/:id",
     "GET /acoes/:id", "PUT /acoes/:id", "DELETE /acoes/:id",
     "PUT /alocacoes/:id", "DELETE /alocacoes/:id"}

TableOf(route) ==
    CASE route \in {"GET /clientes/:id", "PUT /clientes/:id", "DELETE /clientes/:id"} -> clientes
      [] route \in {"GET /acoes/:id", "PUT /acoes/:id", "DELETE /acoes/:id"} -> acoes
      [] route \in {"PUT /alocacoes/:id", "DELETE /alocacoes/:id"} -> alocacoes

SchemaRoutes ==
    ByIdRoutes \cup {"POST /clientes", "GET /clientes/buscar", "POST /acoes",
                     "POST /clientes/:id/alocacoes", "GET /clientes/:id/alocacoes"}

(* Whether the request passes the schemas its route declares. *)
RequestValid(route, req) ==
    CASE route = "POST /clientes" -> createClienteSchema(req.body).ok
      [] route = "GET /clientes/buscar" -> buscarClienteQuerySchema(req.query).ok
      [] route = "POST /acoes" -> createAcaoSchema(req.body).ok
      [] route = "POST /clientes/:id/alocacoes" ->
            IdParamSchema(req.params).ok /\ createAlocacaoSchema(req.body).ok
      [] route \in PutRoutes ->
            IdParamSchema(req.params).ok /\ UpdateSchemaOf(route, req.body).ok
      [] route \in SchemaRoutes -> IdParamSchema(req.params).ok
      [] OTHER -> TRUE

PairOf(req) == [clienteId |-> IdOf(req.params), acaoId |-> req.body.acaoId.v]

HasPair(pair) ==
    \E a \in alocacoes : a.clienteId = pair.clienteId /\ a.acaoId = pair.acaoId

C5_EmptyUpdateRejected ==
    (/\ resp.route \in PutRoutes
     /\ RequestValid(resp.route, resp.req)
     /\ DOMAIN UpdateSchemaOf(resp.route, resp.req.body).data = {})
    => (resp.status = 400 /\ resp.dbCalls = 0)

TableAfter(route) ==
    CASE route \in {"GET /clientes/:id", "PUT /clientes/:id", "DELETE /clientes/:id"} -> clientes'
      [] route \in {"GET /acoes/:id", "PUT /acoes/:id", "DELETE /acoes/:id"} -> acoes'
      [] route \in {"PUT /alocacoes/:id", "DELETE /alocacoes/:id"} -> alocacoes'

(* C6: a PUT answered 200 set the fields of the validated payload to its    *)
(* values in the record of that id, left the record's other fields, the     *)
(* other records and the other tables as they were, and returned the merged *)
(* record; a read answered 200 returns the stored record.                   *)
C6_PartialUpdateFrame ==
    [][/\ (resp'.route \in PutRoutes /\ resp'.status = 200)
          => LET old == FindById(TableOf(resp'.route), IdOf(resp'.req.params))
                 new == FindById(TableAfter(resp'.route), IdOf(resp'.req.params))
                 sup == UpdateSchemaOf(resp'.route, resp'.req.body).data
             IN /\ old.id # 0 /\ new.id = old.id
                /\ DOMAIN new = DOMAIN old
                /\ \A f \in DOMAIN old :
                      new[f] = IF f \in DOMAIN sup THEN sup[f] ELSE old[f]
                /\ TableAfter(resp'.route) \ {new} = TableOf(resp'.route) \ {old}
                /\ resp'.route # "PUT /clientes/:id" => clientes' = clientes
                /\ resp'.route # "PUT /acoes/:id" => acoes' = acoes
                /\ resp'.route # "PUT /alocacoes/:id" => alocacoes' = alocacoes
                /\ resp'.data = IF resp'.route = "PUT /alocacoes/:id"
                                THEN {[aloc |-> new, acao |-> FindById(acoes, new.acaoId)]}
                                ELSE {new}
       /\ (resp'.route \in {"GET /clientes/:id", "GET /acoes/:id"} /\ resp'.status = 200)
          => (/\ resp'.data = {FindById(TableOf(resp'.route), IdOf(resp'.req.params))}
              /\ UNCHANGED db)
       /\ (resp'.route = "GET /clientes/:id/alocacoes" /\ resp'.status = 200)
          => (/\ {x.aloc : x \in resp'.data} =
                    {a \in alocacoes : a.clienteId = IdOf(resp'.req.params)}
              /\ UNCHANGED db)]_vars

C6_Witness ==
    /\ resp.route = "GET /clientes/:id"
    /\ resp.status = 200
    /\ \E c \in resp.data :
          /\ c.nome_completo = Str(NomeBea)
          /\ c.data_nascimento = DateV(2024, 1, 10)
          /\ c.cpf_cnpj = Str(Cpf1)
          /\ c.telefone = Str(Tel1)
    /\ \E a \in acoes : a.valor_atual = Num(31) /\ a.descricao = Null
    /\ \E a \in alocacoes : a.quantidade = Num(150) /\ a.acaoId = 1

(* C7: a get-by-id, update or delete request that passes validation and     *)
(* names an id with no row is answered 404 and leaves every table as it     *)
(* was.                                                                    *)
C7_MissingIdIs404 ==
    [][(/\ resp'.route \in ByIdRoutes
        /\ RequestValid(resp'.route, resp'.req)
        /\ FindById(TableOf(resp'.route), IdOf(resp'.req.params)).id = 0)
       => (resp'.status = 404 /\ UNCHANGED db)]_vars

C7_Witness ==
    /\ resp.route = "DELETE /alocacoes/:id"
    /\ resp.status = 404
    /\ clientes # {} /\ acoes # {} /\ alocacoes # {}

(* C8: POST /clientes/:id/alocacoes looks the customer up first: when it    *)
(* is missing the answer is 404 "Cliente nao encontrado.", whether or not   *)
(* the asset exists; the asset is looked up second: when it is missing the  *)
(* answer is 404 "Acao nao encontrada."; either answer ends the request     *)
(* before the insert and no table changes.                                  *)
C8_ClienteThenAcao ==
    [][(resp'.route = "POST /clientes/:id/alocacoes"
           /\ RequestValid(resp'.route, resp'.req))
       => (/\ (resp'.dbCalls = 1 /\ FindById(clientes, PairOf(resp'.req).clienteId).id = 0)
                 => (/\ resp'.status = 404
                     /\ resp'.msg = "Cliente nao encontrado."
                     /\ UNCHANGED <<db, inflight>>)
           /\ (resp'.dbCalls = 1 /\ FindById(clientes, PairOf(resp'.req).clienteId).id # 0)
                 => resp'.status = 0
           /\ (resp'.dbCalls = 2 /\ FindById(acoes, PairOf(resp'.req).acaoId).id = 0)
                 => (/\ resp'.status = 404
                     /\ resp'.msg = "Acao nao encontrada."
                     /\ \A w \in Workers :
                           inflight'[w] # inflight[w] => inflight'[w].pc = "idle"
                     /\ UNCHANGED db)
           /\ resp'.status = 404 => (resp'.dbCalls < 3 /\ UNCHANGED db))]_vars

C8_Witness ==
    /\ resp.route = "POST /clientes/:id/alocacoes"
    /\ resp.status = 404
    /\ resp.msg = "Acao nao encontrada."
    /\ FindById(clientes, PairOf(resp.req).clienteId).id # 0
    /\ FindById(acoes, PairOf(resp.req).acaoId).id = 0
    /\ alocacoes # {}

Present(q, f) == f \in DOMAIN q

Supplied(q, f) == f \in DOMAIN q /\ Len(q[f]) > 0

(* C9 as stated: GET /clientes/buscar is accepted exactly when one of the   *)
(* keys nome_completo and cpf_cnpj is present in the query; with both or    *)
(* neither present it is answered 400 before any lookup.                    *)
C9_AcceptsExactlyOneKey ==
    resp.route = "GET /clientes/buscar"
    => IF Present(resp.req.query, "nome_completo") = Present(resp.req.query, "cpf_cnpj")
       THEN resp.status = 400 /\ resp.dbCalls = 0
       ELSE resp.status \in {200, 404} /\ resp.dbCalls = 1

(* C9: GET /clientes/buscar is accepted exactly when one of nome_completo   *)
(* and cpf_cnpj holds a non-empty string; with both or neither it is        *)
(* answered 400 before any lookup; with only cpf_cnpj and a customer        *)
(* holding exactly that value, the answer is that customer and no other.    *)
C9_AcceptsExactlyOneValue ==
    [][resp'.route = "GET /clientes/buscar"
       => (/\ IF Supplied(resp'.req.query, "nome_completo")
                    = Supplied(resp'.req.query, "cpf_cnpj")
              THEN resp'.status = 400 /\ resp'.dbCalls = 0
              ELSE resp'.status \in {200, 404} /\ resp'.dbCalls = 1
           /\ (/\ Supplied(resp'.req.query, "cpf_cnpj")
               /\ ~Supplied(resp'.req.query, "nome_completo")
               /\ \E c \in clientes : c.cpf_cnpj = Str(resp'.req.query.cpf_cnpj))
                 => (/\ resp'.status = 200
                     /\ resp'.data =
                           {c \in clientes : c.cpf_cnpj = Str(resp'.req.query.cpf_cnpj)}
                     /\ Cardinality(resp'.data) = 1)
           /\ UNCHANGED db)]_vars

C9_Witness ==
    /\ resp.route = "GET /clientes/buscar"
    /\ resp.status = 200
    /\ resp.req.query = [nome_completo |-> <<>>, cpf_cnpj |-> Cpf1]
    /\ Cardinality(clientes) = 2
    /\ \A c \in resp.data : c.cpf_cnpj = Str(Cpf1)

(* C10: on every route that declares a schema, a request that fails it is   *)
(* answered 400 before any persistence call, and no table changes.         *)
C10_InvalidRequestIs400 ==
    [][(resp'.route \in SchemaRoutes /\ ~RequestValid(resp'.route, resp'.req))
       => (resp'.status = 400 /\ resp'.dbCalls = 0 /\ UNCHANGED <<db, inflight>>)]_vars

C10_Witness ==
    /\ resp.route = "POST /clientes/:id/alocacoes"
    /\ resp.status = 400
    /\ createAlocacaoSchema(resp.req.body).ok = FALSE
    /\ clientes # {} /\ acoes # {} /\ alocacoes # {}

(* C11: every 409 response carries a body with a message and a fields      *)
(* indicator naming the offending constraint.                              *)
C11_ConflictNamesFields ==
    resp.status = 409 => {"message", "fields"} \subseteq resp.keys

UpdatableAlocacaoFields == {"quantidade", "valor_medio_aquisicao", "data_ultima_compra"}

(* C12: an allocation keeps its clienteId and its acaoId in every step      *)
(* from its creation to its deletion; a PUT /alocacoes/:id, whatever its    *)
(* body, changes at most quantidade, valor_medio_aquisicao and              *)
(* data_ultima_compra of the allocation it names and no other allocation.   *)
C12_ReferencesImmutable ==
    [][/\ \A a \in alocacoes : \A b \in alocacoes' :
             a.id = b.id => (a.clienteId = b.clienteId /\ a.acaoId = b.acaoId)
       /\ resp'.route = "PUT /alocacoes/:id"
             => (/\ {b.id : b \in alocacoes'} = {a.id : a \in alocacoes}
                 /\ \A a \in alocacoes : \A b \in alocacoes' :
                       a.id = b.id
                         => (/\ \A f \in DOMAIN a \ UpdatableAlocacaoFields : b[f] = a[f]
                             /\ a.id # IdOf(resp'.req.params) => b = a)
                 /\ UNCHANGED <<clientes, acoes, nextId>>)]_vars

C12_Witness ==
    /\ resp.route = "PUT /alocacoes/:id"
    /\ resp.status = 200
    /\ resp.req.body = [acaoId |-> Num(2), clienteId |-> Num(2),
                        data_ultima_compra |-> Str(Data1)]
    /\ Cardinality(clientes) = 2 /\ Cardinality(acoes) = 2
    /\ \E a \in alocacoes :
          /\ a.id = IdOf(resp.req.params)
          /\ a.clienteId = 1 /\ a.acaoId = 1
          /\ a.data_ultima_compra = DateV(2000, 1, 10)

C17_ListAlocacoes ==
    [][(/\ resp'.route = "GET /clientes/:id/alocacoes"
        /\ RequestValid(resp'.route, resp'.req))
       => (/\ resp'.status = 200
           /\ {x.aloc : x \in resp'.data} =
                 {a \in alocacoes : a.clienteId = IdOf(resp'.req.params)}
           /\ \A x \in resp'.data :
                 \E ac \in acoes :
                    /\ ac.id = x.aloc.acaoId
                    /\ x.acao = [id |-> ac.id, nome_ativo |-> ac.nome_ativo,
                                 codigo_ticker |-> ac.codigo_ticker,
                                 valor_atual |-> ac.valor_atual]
           /\ Cardinality(resp'.data) =
                 Cardinality({a \in alocacoes : a.clienteId = IdOf(resp'.req.params)})
           /\ UNCHANGED db)]_vars

C17_Witness ==
    /\ resp.route = "GET /clientes/:id/alocacoes"
    /\ resp.status = 200
    /\ resp.data = {}
    /\ FindById(clientes, IdOf(resp.req.params)).id = 0
    /\ alocacoes # {}

(* C13: the process never exits before the database client has been       *)
(* disconnected; it exits with status 0 only from a signal, after the       *)
(* listener closed and then the client disconnected; it exits with status   *)
(* 1 only after the listener failed to start and the client disconnected.   *)
(* Once a signal has arrived, or the listener has failed to start, the      *)
(* process does exit: with status 0 after a signal when the listener had    *)
(* started, and with status 1 after a failed start unless a signal arrives  *)
(* too, in which case either path may be the one that exits.                *)
C13_ShutdownOrder ==
    /\ [](/\ processo.exitCode # -1 => processo.prisma = "disconnected"
          /\ processo.exitCode = 0
                => (/\ processo.listener = "closed"
                    /\ \E s \in Signals : processo.shutdown[s] = "exit")
          /\ processo.exitCode = 1
                => (/\ processo.start = "exited"
                    /\ processo.listener # "listening"
                    /\ \A s \in Signals : processo.shutdown[s] # "exit"))
    /\ [][/\ \A s \in Signals :
                (processo.shutdown[s] = "close" /\ processo'.shutdown[s] = "disconnect")
                   => processo.listener = "closed"
          /\ processo'.exitCode # processo.exitCode
                => (processo.exitCode = -1 /\ processo.prisma = "disconnected")]_vars
    /\ (\E s \in Signals : processo.shutdown[s] # "none") ~> (processo.exitCode # -1)
    /\ (processo.start = "exit") ~> (processo.exitCode # -1)
    /\ ((\E s \in Signals : processo.shutdown[s] # "none") /\ processo.start = "done")
          ~> (processo.exitCode = 0)
    /\ (processo.start = "exit")
          ~> (processo.exitCode = 1 \/ \E s \in Signals : processo.shutdown[s] # "none")

(* C13 as stated: every signal ends in an exit with status 0 and every      *)
(* failed start in an exit with status 1, the client disconnected before.   *)
C13_SignalExits0StartFailureExits1 ==
    /\ [](processo.exitCode # -1 => processo.prisma = "disconnected")
    /\ [][processo'.exitCode # processo.exitCode
                => (processo.exitCode = -1 /\ processo.prisma = "disconnected")]_vars
    /\ (\E s \in Signals : processo.shutdown[s] # "none") ~> (processo.exitCode = 0)
    /\ (processo.start = "exit") ~> (processo.exitCode = 1)

C13_Witness ==
    /\ processo.exitCode = 0
    /\ processo.prisma = "disconnected"
    /\ \A s \in Signals : processo.shutdown[s] # "none"
    /\ alocacoes # {}

WriteRoutes ==
    {"POST /clientes", "PUT /clientes/:id", "DELETE /clientes/:id",
     "POST /acoes", "PUT /acoes/:id", "DELETE /acoes/:id",
     "POST /clientes/:id/alocacoes", "PUT /alocacoes/:id", "DELETE /alocacoes/:id"}

(* The error, "" for none, of the one write a valid request of the route    *)
(* makes on the tables as they stand.                                      *)
FailureOf(route, req) ==
    CASE route = "POST /clientes" -> ClienteCreate(createClienteSchema(req.body).data).err
      [] route = "PUT /clientes/:id" ->
            ClienteUpdate(IdOf(req.params), updateClienteSchema(req.body).data).err
      [] route = "DELETE /clientes/:id" -> ClienteDelete(IdOf(req.params)).err
      [] route = "POST /acoes" -> AcaoCreate(createAcaoSchema(req.body).data).err
      [] route = "PUT /acoes/:id" ->
            AcaoUpdate(IdOf(req.params), updateAcaoSchema(req.body).data).err
      [] route = "DELETE /acoes/:id" -> AcaoDelete(IdOf(req.params)).err
      [] route = "POST /clientes/:id/alocacoes" ->
            LET data == createAlocacaoSchema(req.body).data
            IN AlocacaoCreate(IdOf(req.params), data.acaoId.v,
                              [f \in DOMAIN data \ {"acaoId"} |-> data[f]]).err
      [] route = "PUT /alocacoes/:id" ->
            AlocacaoUpdate(IdOf(req.params), updateAlocacaoSchema(req.body).data).err
      [] route = "DELETE /alocacoes/:id" -> AlocacaoDelete(IdOf(req.params)).err

(* The status the kind of failure stands for, whatever the entity. *)
StatusOfFailure(route, err) ==
    CASE err = "" ->
            IF route \in {"POST /clientes", "POST /acoes", "POST /clientes/:id/alocacoes"}
            THEN 201 ELSE 200
      [] err = "P2002" -> 409
      [] err = "P2025" -> 404
      [] err = "P2003" /\ route \in {"DELETE /clientes/:id", "DELETE /acoes/:id",
                                     "DELETE /alocacoes/:id"} -> 409
      [] OTHER -> 500

(* The step in which a valid request of a write route makes its write: the  *)
(* whole handler, or the third step of POST /clientes/:id/alocacoes.        *)
WriteStep ==
    /\ resp' # resp
    /\ resp'.route \in WriteRoutes
    /\ RequestValid(resp'.route, resp'.req)
    /\ resp'.route = "POST /clientes/:id/alocacoes"
          => \E w \in DOMAIN inflight :
                /\ inflight[w].pc = "create" /\ inflight[w].req = resp'.req
                /\ inflight'[w].pc = "idle"

=============================================================================
